---- MODULE Spec2Model ----
(***************************************************************************)
(* Laptop dashboard (src/app/main.py): the JSON catalog loader with its    *)
(* single-slot mtime cache, the per-field coercions, the filter engine and *)
(* the three routes (GET /, GET /product/{item_id}, GET /api/laptops).     *)
(*                                                                         *)
(* Text is modelled by TLA+ strings, read character by character with      *)
(* SubSeq; Python lists by sequences; Python dicts by records; the Python  *)
(* value None by the model value None.  List objects live in a heap, so    *)
(* that two names of one list (the cache's and a request's) stay aliases.  *)
(***************************************************************************)
EXTENDS Integers, Sequences, FiniteSets, TLC

(***************************************************************************)
(* Text helpers: the str methods the code calls.                           *)
(***************************************************************************)
Ch(s, i) == SubSeq(s, i, i)

UpperChars == "ABCDEFGHIJKLMNOPQRSTUVWXYZ"
LowerChars == "abcdefghijklmnopqrstuvwxyz"
DigitChars == "0123456789"

CharIn(c, chars) == \E i \in 1..Len(chars) : Ch(chars, i) = c

IndexIn(c, chars) == CHOOSE i \in 1..Len(chars) : Ch(chars, i) = c

\* str.lower(), one character
LowerCh(c) == IF CharIn(c, UpperChars) THEN Ch(LowerChars, IndexIn(c, UpperChars)) ELSE c

RECURSIVE Lower(_)
Lower(s) == IF s = "" THEN "" ELSE LowerCh(Head(s)) \o Lower(Tail(s))

\* s without its leading characters that are in chars
RECURSIVE LStrip(_, _)
LStrip(s, chars) == IF s # "" /\ CharIn(Ch(s, 1), chars) THEN LStrip(Tail(s), chars) ELSE s

RECURSIVE RStrip(_, _)
RStrip(s, chars) ==
    IF s # "" /\ CharIn(Ch(s, Len(s)), chars) THEN RStrip(SubSeq(s, 1, Len(s) - 1), chars)
    ELSE s

\* str.strip(): the white space of the model's texts is the blank
Strip(s) == RStrip(LStrip(s, " "), " ")

\* str.strip("-")
StripHyphens(s) == RStrip(LStrip(s, "-"), "-")

\* the characters of s that are in chars, in order
RECURSIVE KeepChars(_, _)
KeepChars(s, chars) ==
    IF s = "" THEN ""
    ELSE (IF CharIn(Head(s), chars) THEN Head(s) ELSE "") \o KeepChars(Tail(s), chars)

\* the characters of s that are not in chars, in order
RECURSIVE DropChars(_, _)
DropChars(s, chars) ==
    IF s = "" THEN ""
    ELSE (IF CharIn(Head(s), chars) THEN "" ELSE Head(s)) \o DropChars(Tail(s), chars)

\* needle in hay
Contains(hay, needle) ==
    \E i \in 1..(Len(hay) - Len(needle) + 1) : SubSeq(hay, i, i + Len(needle) - 1) = needle

\* hay.startswith(prefix)
StartsWith(hay, prefix) ==
    Len(hay) >= Len(prefix) /\ SubSeq(hay, 1, Len(prefix)) = prefix

\* str(n) of a natural number
RECURSIVE NatToStr(_)
NatToStr(n) ==
    IF n < 10 THEN Ch(DigitChars, n + 1)
    ELSE NatToStr(n \div 10) \o Ch(DigitChars, (n % 10) + 1)

\* the number a text of decimal digits denotes ("" denotes 0)
RECURSIVE DigitsToNat(_)
DigitsToNat(s) ==
    IF s = "" THEN 0
    ELSE 10 * DigitsToNat(SubSeq(s, 1, Len(s) - 1)) + (IndexIn(Ch(s, Len(s)), DigitChars) - 1)

(***************************************************************************)
(* slugify (lines 30-34)                                                   *)
(***************************************************************************)
IsSlugChar(c) == CharIn(c, LowerChars) \/ CharIn(c, DigitChars)

\* re.sub(r"[^a-z0-9]+", "-", t): every maximal run of other characters
\* becomes one hyphen
RECURSIVE SubRuns(_, _)
SubRuns(t, inRun) ==
    IF t = "" THEN ""
    ELSE IF IsSlugChar(Head(t)) THEN Head(t) \o SubRuns(Tail(t), FALSE)
    ELSE (IF inRun THEN "" ELSE "-") \o SubRuns(Tail(t), TRUE)

\* re.sub(r"-{2,}", "-", t)
RECURSIVE SqueezeHyphens(_, _)
SqueezeHyphens(t, inRun) ==
    IF t = "" THEN ""
    ELSE IF Head(t) = "-" THEN (IF inRun THEN "" ELSE "-") \o SqueezeHyphens(Tail(t), TRUE)
    ELSE Head(t) \o SqueezeHyphens(Tail(t), FALSE)

slugify(text) ==
    LET t1 == Lower(Strip(text))
        t2 == SubRuns(t1, FALSE)
        t3 == StripHyphens(SqueezeHyphens(t2, FALSE))
    IN  IF t3 = "" THEN "item" ELSE t3

(***************************************************************************)
(* parse_price (lines 37-51).  A JSON value is a tagged record:            *)
(*   None, [t |-> "int", v |-> n], [t |-> "float", m |-> tenths] *)
(*   (the number m/10), [t |-> "inf"] (a float beyond the double range,    *)
(*   such as 1e999, which json.load reads as inf), [t |-> "str", v |-> s]. *)
(* The result is Ok(n), or Raise(e) when the call raises e.                *)
(***************************************************************************)
Ok(v) == [ok |-> TRUE, v |-> v]

Raise(e) == [ok |-> FALSE, err |-> e]

\* Python's None (JSON null)
None == [t |-> "null"]

JInt(n) == [t |-> "int", v |-> n]

JFloat(m) == [t |-> "float", m |-> m]

JInf == [t |-> "inf"]

JStr(s) == [t |-> "str", v |-> s]

\* int(x) of the float m/10: truncation towards zero
TruncTenths(m) == IF m >= 0 THEN m \div 10 ELSE -((-m) \div 10)

\* float(s) of a text of digits and points: a number when s has at least one
\* digit and at most one point, ValueError otherwise; int() of it is the
\* integer part
IntOfFloatText(s) ==
    LET dots == Len(KeepChars(s, "."))
        digits == Len(KeepChars(s, DigitChars))
        firstDot == CHOOSE i \in 1..Len(s) : Ch(s, i) = "."
        whole == IF dots = 0 THEN s ELSE SubSeq(s, 1, firstDot - 1)
    IN  IF dots > 1 \/ digits = 0 THEN Raise("ValueError") ELSE Ok(DigitsToNat(whole))

parse_price(value) ==
    IF value.t = "null" THEN Ok(0)
    ELSE IF value.t = "int" THEN Ok(value.v)
    ELSE IF value.t = "float" THEN Ok(TruncTenths(value.m))
    ELSE IF value.t = "inf" THEN Raise("OverflowError")
    ELSE LET s1 == Strip(DropChars(value.v, ","))
             s2 == KeepChars(s1, DigitChars \o ".")
         IN  IF s2 = "" THEN Ok(0) ELSE IntOfFloatText(s2)

(***************************************************************************)
(* normalize_pics (lines 54-60) and resolve_pic_url (lines 63-77).  The    *)
(* raw value is None, [t |-> "str", v |-> s] or [t |-> "list", v |-> seq   *)
(* of texts].                                                              *)
(***************************************************************************)
JList(xs) == [t |-> "list", v |-> xs]

NonBlank(s) == Strip(s) # ""

RECURSIVE MapStrip(_)
MapStrip(xs) == IF xs = <<>> THEN <<>> ELSE <<Strip(Head(xs))>> \o MapStrip(Tail(xs))

normalize_pics(raw) ==
    IF raw = None THEN <<>>
    ELSE IF raw.t = "list" THEN MapStrip(SelectSeq(raw.v, NonBlank))
    ELSE IF Strip(raw.v) # "" THEN <<Strip(raw.v)>> ELSE <<>>

resolve_pic_url(pic) ==
    LET p == Strip(pic)
    IN  IF p = "" THEN ""
        ELSE IF StartsWith(p, "http://") \/ StartsWith(p, "https://") THEN p
        ELSE IF StartsWith(p, "/") THEN p
        ELSE "/static/" \o p

(***************************************************************************)
(* The backing file's JSON.  The file holds Doc(rows), a JSON array, or    *)
(* NotAList, valid JSON of another type.  An entry of the array is         *)
(* Row(...), a JSON object, or NonRecord, any other JSON value.  A key a   *)
(* row does not hold is Absent.                                            *)
(***************************************************************************)
Absent == [t |-> "absent"]

NonRecord == [t |-> "other"]

NotAList == [t |-> "object"]

Doc(rows) == [t |-> "list", v |-> rows]

Row(name, price, pic, pics, description) ==
    [t |-> "obj", name |-> name, price |-> price, pic |-> pic, pics |-> pics,
     description |-> description]

\* dict.get(key, default)
Get(value, default) == IF value = Absent THEN default ELSE value

\* str(x) of a JSON text or null
StrOf(value) == IF value = None THEN "None" ELSE value.v

(***************************************************************************)
(* load_laptops, lines 97-130: the records of the array and their order.   *)
(***************************************************************************)
\* lines 102-104
RowName(row, idx) ==
    LET name == Strip(StrOf(Get(row.name, JStr(""))))
    IN  IF name = "" THEN "Untitled Laptop " \o NatToStr(idx + 1) ELSE name

\* lines 109-112
RowPics(row) ==
    LET pics_raw == Get(row.pic, None)
    IN  normalize_pics(IF pics_raw = None THEN Get(row.pics, None) ELSE pics_raw)

\* a faulty line 117, which leaves the position out of the id
ItemIdByName(name, idx) == slugify(name)

\* line 117
ItemId(name, idx) == slugify(name) \o "-" \o NatToStr(idx + 1)

\* lines 119-127, given the parsed price
MakeItem(row, idx, price) ==
    [id |-> ItemId(RowName(row, idx), idx),
     name |-> RowName(row, idx),
     price |-> price,
     pics |-> RowPics(row),
     description |-> Strip(StrOf(Get(row.description, JStr(""))))]

\* lines 98-127, from the 0-based position idx on: Ok(items), or the error
\* parse_price raises
RECURSIVE BuildFrom(_, _)
BuildFrom(data, idx) ==
    IF idx >= Len(data) THEN Ok(<<>>)
    ELSE LET row == data[idx + 1]
             rest == BuildFrom(data, idx + 1)
         IN  IF row.t # "obj" THEN rest
             ELSE LET price == parse_price(Get(row.price, JInt(0)))
                  IN  IF ~price.ok THEN price
                      ELSE IF ~rest.ok THEN rest
                      ELSE Ok(<<MakeItem(row, idx, price.v)>> \o rest.v)

\* a faulty sort, which is not stable: an item goes before the items of its
\* price
RECURSIVE InsertBeforeEqual(_, _)
InsertBeforeEqual(sorted, item) ==
    IF sorted = <<>> THEN <<item>>
    ELSE IF Head(sorted).price < item.price
         THEN <<Head(sorted)>> \o InsertBeforeEqual(Tail(sorted), item)
    ELSE <<item>> \o sorted

\* list.sort(key=price), line 130: stable, so an item goes after the items
\* of the sorted prefix whose price is not greater
RECURSIVE InsertByPrice(_, _)
InsertByPrice(sorted, item) ==
    IF sorted = <<>> THEN <<item>>
    ELSE IF Head(sorted).price <= item.price
         THEN <<Head(sorted)>> \o InsertByPrice(Tail(sorted), item)
    ELSE <<item>> \o sorted

RECURSIVE SortByPrice(_)
SortByPrice(items) ==
    IF items = <<>> THEN <<>>
    ELSE InsertByPrice(SortByPrice(SubSeq(items, 1, Len(items) - 1)), items[Len(items)])

\* lines 91-130 on the file's content: Ok(sorted items) or the error raised
BuildCatalog(data) ==
    IF data.t # "list" THEN Raise("ValueError")
    ELSE LET built == BuildFrom(data.v, 0)
         IN  IF built.ok THEN Ok(SortByPrice(built.v)) ELSE built

(***************************************************************************)
(* filter_laptops (lines 137-154).  The lists it builds hold the dicts of  *)
(* its input, not copies: FilterPositions gives them by their positions in *)
(* items, and filter_laptops is the list of those dicts.  An optional      *)
(* argument is None, JInt(n) or JStr(s).                                   *)
(***************************************************************************)
Positions(items) == [i \in 1..Len(items) |-> i]

\* a faulty filter, whose lower bound is strict
FilterPositionsStrict(items, min_price, max_price, q) ==
    LET out0 == Positions(items)
        Above(i) == items[i].price > min_price.v
        out1 == IF min_price # None THEN SelectSeq(out0, Above) ELSE out0
        AtMost(i) == items[i].price <= max_price.v
        out2 == IF max_price # None THEN SelectSeq(out1, AtMost) ELSE out1
        qq == Lower(Strip(q.v))
        Matches(i) == Contains(Lower(items[i].name), qq)
    IN  IF q # None /\ q.v # "" THEN SelectSeq(out2, Matches) ELSE out2

FilterPositions(items, min_price, max_price, q) ==
    LET out0 == Positions(items)
        AtLeast(i) == items[i].price >= min_price.v
        out1 == IF min_price # None THEN SelectSeq(out0, AtLeast) ELSE out0
        AtMost(i) == items[i].price <= max_price.v
        out2 == IF max_price # None THEN SelectSeq(out1, AtMost) ELSE out1
        qq == Lower(Strip(q.v))
        Matches(i) == Contains(Lower(items[i].name), qq)
    IN  IF q # None /\ q.v # "" THEN SelectSeq(out2, Matches) ELSE out2

Deref(items, positions) == [k \in 1..Len(positions) |-> items[positions[k]]]

filter_laptops(items, min_price, max_price, q) ==
    Deref(items, FilterPositions(items, min_price, max_price, q))

\* lines 157-166
normalize_range_value(v) ==
    IF v = None THEN None
    ELSE IF 0 < v.v /\ v.v < 1000 THEN JInt(v.v * 1000)
    ELSE v

(***************************************************************************)
(* The routes' own computations.                                           *)
(***************************************************************************)
NoImageSmall == "https://via.placeholder.com/160x120?text=No+Image"

NoImageLarge == "https://via.placeholder.com/900x600?text=No+Image"

RECURSIVE ResolveAll(_)
ResolveAll(pics) ==
    IF pics = <<>> THEN <<>> ELSE <<resolve_pic_url(Head(pics))>> \o ResolveAll(Tail(pics))

\* a faulty choice, `min or min_price`, which takes a short form of 0 for
\* an absent one
EffectiveOr(short, legacy) ==
    normalize_range_value(IF short # None /\ short.v # 0 THEN short ELSE legacy)

\* home, lines 191-192: the short form when it is not None
Effective(short, legacy) == normalize_range_value(IF short # None THEN short ELSE legacy)

\* home, lines 197-199: the dict x after the loop body
WithPicUrls(x) ==
    LET urls == ResolveAll(x.pics)
    IN  [pic_urls |-> IF urls = <<>> THEN <<NoImageSmall>> ELSE urls] @@ x

\* product_page, line 218: the first item with that id, or None
FindItem(items, item_id) ==
    IF \E i \in 1..Len(items) : items[i].id = item_id
    THEN items[CHOOSE i \in 1..Len(items) :
                   /\ items[i].id = item_id
                   /\ \A j \in 1..(i - 1) : items[j].id # item_id]
    ELSE None

\* a faulty product_page, without lines 225-227
ProductPicsNoDuplicate(item) ==
    LET pics0 == ResolveAll(item.pics)
        pics1 == IF Len(pics0) = 0 THEN <<NoImageLarge>> ELSE pics0
    IN  SubSeq(pics1, 1, IF Len(pics1) < 2 THEN Len(pics1) ELSE 2)

\* product_page, lines 222-234
ProductPics(item) ==
    LET pics0 == ResolveAll(item.pics)
        pics1 == IF Len(pics0) = 0 THEN <<NoImageLarge>> ELSE pics0
        pics2 == IF Len(pics1) = 1 THEN <<pics1[1], pics1[1]>> ELSE pics1
    IN  SubSeq(pics2, 1, 2)

(***************************************************************************)
(* The running service.                                                    *)
(*   file   the backing file: whether it exists, its modification time and *)
(*          its JSON                                                       *)
(*   cache  _cache (line 27): mtime, and items, a reference to a list      *)
(*   heap   the list objects, by reference                                 *)
(*   pc     where each worker thread is in its request                     *)
(*   loc    load_laptops' locals in each worker: mtime, items, and didRead *)
(*          (whether this call opened the file)                            *)
(*   resp   the response a worker has computed, with the request's route   *)
(*          and parameters, until it is sent                               *)
(* FastAPI runs these plain `def` routes on a pool of threads, and a       *)
(* thread switch may fall between any two statements: a worker takes one   *)
(* step per access to the file or to _cache.  A route's work after         *)
(* load_laptops returns is one step.  Every route starts with the same     *)
(* call of load_laptops and reads its parameters only after it, so the     *)
(* step after the call draws the route and the parameters.                 *)
(***************************************************************************)
VARIABLES file, cache, heap, pc, loc, resp

vars == <<file, cache, heap, pc, loc, resp>>

Workers == {"w1", "w2"}

Refs == {"L1", "L2", "L3"}

NoRef == "none"

\* the file is written at most this many times
MaxMtime == 2

NoLocals == [mtime |-> None, items |-> NoRef, didRead |-> FALSE]

NoResponse == [route |-> "none", status |-> 0]

\* the lists some name still refers to
Live(c, l) == ({c.items} \cup {l[w].items : w \in Workers}) \ {NoRef}

\* the heap without the lists nothing refers to
Collect(h, c, l) == [r \in Refs |-> IF r \in Live(c, l) THEN h[r] ELSE <<>>]

NewRef == CHOOSE r \in Refs : r \notin Live(cache, loc)

\* a route returns: its response is ready, and h is the heap it leaves
Finish(w, response, h) ==
    /\ resp' = [resp EXCEPT ![w] = response]
    /\ pc' = [pc EXCEPT ![w] = "done"]
    /\ heap' = h
    /\ UNCHANGED <<file, cache, loc>>

\* an exception leaves the route: the framework answers 500
Fail(w, e) == Finish(w, [route |-> "any", status |-> 500, error |-> e], heap)

InitService(data) ==
    /\ file = [exists |-> TRUE, mtime |-> 1, data |-> data]
    /\ cache = [mtime |-> None, items |-> "L1"]
    /\ heap = [r \in Refs |-> <<>>]
    /\ pc = [w \in Workers |-> "idle"]
    /\ loc = [w \in Workers |-> NoLocals]
    /\ resp = [w \in Workers |-> NoResponse]

(***************************************************************************)
(* The file's owner.                                                       *)
(***************************************************************************)
WriteFile(data) ==
    /\ file.mtime < MaxMtime
    /\ file' = [exists |-> TRUE, mtime |-> file.mtime + 1, data |-> data]
    /\ UNCHANGED <<cache, heap, pc, loc, resp>>

RemoveFile ==
    /\ file.exists
    /\ file' = [file EXCEPT !.exists = FALSE]
    /\ UNCHANGED <<cache, heap, pc, loc, resp>>

(***************************************************************************)
(* A request arrives, and load_laptops (lines 80-134) step by step.        *)
(***************************************************************************)
Receive(w) ==
    /\ pc[w] = "idle"
    /\ pc' = [pc EXCEPT ![w] = "exists"]
    /\ UNCHANGED <<file, cache, heap, loc, resp>>

\* lines 84-85
CheckExists(w) ==
    /\ pc[w] = "exists"
    /\ IF file.exists
       THEN /\ pc' = [pc EXCEPT ![w] = "stat"]
            /\ UNCHANGED <<file, cache, heap, loc, resp>>
       ELSE Fail(w, "FileNotFoundError")

\* line 87
Stat(w) ==
    /\ pc[w] = "stat"
    /\ IF file.exists
       THEN /\ loc' = [loc EXCEPT ![w].mtime = JInt(file.mtime)]
            /\ pc' = [pc EXCEPT ![w] = "check"]
            /\ UNCHANGED <<file, cache, heap, resp>>
       ELSE Fail(w, "FileNotFoundError")

\* a faulty line 88, which takes a list of one record for an empty one
CacheHitSeveral(mtime) == cache.mtime = mtime /\ Len(heap[cache.items]) > 1

\* line 88: the cached list is returned when the times are equal and the
\* list is not empty
CacheHit(mtime) == cache.mtime = mtime /\ heap[cache.items] # <<>>

\* lines 88-89
CheckCache(w) ==
    /\ pc[w] = "check"
    /\ IF CacheHit(loc[w].mtime)
       THEN /\ loc' = [loc EXCEPT ![w].items = cache.items]
            /\ pc' = [pc EXCEPT ![w] = "route"]
       ELSE /\ pc' = [pc EXCEPT ![w] = "read"]
            /\ UNCHANGED loc
    /\ UNCHANGED <<file, cache, heap, resp>>

\* lines 91-130: the file is read and the new list built
ReadFile(w) ==
    /\ pc[w] = "read"
    /\ IF ~file.exists THEN Fail(w, "FileNotFoundError")
       ELSE LET built == BuildCatalog(file.data)
            IN  IF ~built.ok THEN Fail(w, built.err)
                ELSE /\ heap' = [heap EXCEPT ![NewRef] = built.v]
                     /\ loc' = [loc EXCEPT ![w].items = NewRef, ![w].didRead = TRUE]
                     /\ pc' = [pc EXCEPT ![w] = "set_mtime"]
                     /\ UNCHANGED <<file, cache, resp>>

\* line 132
SetCacheMtime(w) ==
    /\ pc[w] = "set_mtime"
    /\ cache' = [cache EXCEPT !.mtime = loc[w].mtime]
    /\ pc' = [pc EXCEPT ![w] = "set_items"]
    /\ UNCHANGED <<file, heap, loc, resp>>

\* lines 133-134
SetCacheItems(w) ==
    /\ pc[w] = "set_items"
    /\ LET c == [cache EXCEPT !.items = loc[w].items]
       IN  /\ cache' = c
           /\ heap' = Collect(heap, c, loc)
    /\ pc' = [pc EXCEPT ![w] = "route"]
    /\ UNCHANGED <<file, loc, resp>>

\* load_laptops, from its first line to its return or its exception
Load(w) ==
    \/ CheckExists(w)
    \/ Stat(w)
    \/ CheckCache(w)
    \/ ReadFile(w)
    \/ SetCacheMtime(w)
    \/ SetCacheItems(w)

(***************************************************************************)
(* The routes, after load_laptops has returned loc[w].items.               *)
(***************************************************************************)
\* home, lines 191-212
Home(w, min_price, max_price, min, max, q) ==
    /\ pc[w] = "route"
    /\ LET items == heap[loc[w].items]
           effective_min == Effective(min, min_price)
           effective_max == Effective(max, max_price)
           hit == FilterPositions(items, effective_min, effective_max, q)
           shown == {hit[k] : k \in 1..Len(hit)}
           after == [i \in 1..Len(items) |->
                        IF i \in shown THEN WithPicUrls(items[i]) ELSE items[i]]
       IN  Finish(w, [route |-> "home", status |-> 200,
                      min_price |-> min_price, max_price |-> max_price,
                      min |-> min, max |-> max, q |-> q,
                      effective_min |-> effective_min,
                      effective_max |-> effective_max,
                      items |-> Deref(after, hit)],
                  [heap EXCEPT ![loc[w].items] = after])

\* product_page, lines 218-236
ProductPage(w, item_id) ==
    /\ pc[w] = "route"
    /\ LET item == FindItem(heap[loc[w].items], item_id)
       IN  IF item = None
           THEN Finish(w, [route |-> "product", status |-> 404, item_id |-> item_id], heap)
           ELSE Finish(w, [route |-> "product", status |-> 200, item_id |-> item_id,
                           item |-> item, pics |-> ProductPics(item)], heap)

\* api_laptops, lines 247-248
ApiLaptops(w, min_price, max_price, q) ==
    /\ pc[w] = "route"
    /\ LET filtered == filter_laptops(heap[loc[w].items], min_price, max_price, q)
       IN  Finish(w, [route |-> "api", status |-> 200,
                      min_price |-> min_price, max_price |-> max_price, q |-> q,
                      count |-> Len(filtered), items |-> filtered], heap)

\* the response is sent and the request's locals go
Send(w) ==
    /\ pc[w] = "done"
    /\ LET l == [loc EXCEPT ![w] = NoLocals]
       IN  /\ loc' = l
           /\ heap' = Collect(heap, cache, l)
    /\ pc' = [pc EXCEPT ![w] = "idle"]
    /\ resp' = [resp EXCEPT ![w] = NoResponse]
    /\ UNCHANGED <<file, cache>>

(***************************************************************************)
(* Spec: two workers serve the three routes while the file's owner         *)
(* rewrites the file.                                                      *)
(***************************************************************************)
\* three records, two of one name and price, with 3, 1 and 0 pictures,
\* around an entry that is no record
CatalogA ==
    Doc(<<Row(JStr("Dell XPS"), JStr("Rs 60,000"), Absent,
              JList(<<"images/a.jpg", "https://x/y.jpg", "/z.jpg">>), JStr("thin")),
          NonRecord,
          Row(JStr("HP"), JInt(30000), JStr("hp.jpg"), Absent, Absent),
          Row(JStr("HP"), JInt(30000), Absent, Absent, Absent)>>)

\* one record with two pictures
CatalogB ==
    Doc(<<Row(JStr("Acer"), JInt(90000), Absent, JList(<<"/b1.jpg", "b2.jpg">>), Absent)>>)

\* an array that yields no record
CatalogEmpty == Doc(<<NonRecord>>)

Catalogs == {CatalogA, CatalogB, CatalogEmpty}

Ids(data) ==
    LET built == BuildCatalog(data)
    IN  IF built.ok THEN {built.v[i].id : i \in 1..Len(built.v)} ELSE {}

\* the ids requested: every record's, and one no catalog holds
ItemIds == UNION {Ids(data) : data \in Catalogs} \cup {"lenovo-9"}

\* the ids Spec's requests ask for: one of CatalogA, one no catalog holds
SomeIds == {"hp-4", "lenovo-9"}

Init == \E data \in Catalogs : InitService(data)

Next ==
    \/ \E data \in Catalogs : WriteFile(data)
    \/ \E w \in Workers :
        \/ Receive(w)
        \/ Load(w)
        \/ Home(w, None, None, None, None, None)
        \/ \E item_id \in SomeIds : ProductPage(w, item_id)
        \/ ApiLaptops(w, None, None, None)
        \/ Send(w)

Spec == Init /\ [][Next]_vars

(***************************************************************************)
(* Properties of the cache, under Spec.                                    *)
(***************************************************************************)
\* load_laptops has returned a list to worker w
Returned(w) == pc[w] \in {"route", "done"} /\ loc[w].items # NoRef

\* worker w is about to compare the times (line 88), and no write of the
\* file has come between its stat and now
AtUnchangedFile(w) ==
    /\ pc[w] = "check" /\ pc'[w] # "check"
    /\ file.exists /\ cache.mtime = JInt(file.mtime) /\ loc[w].mtime = cache.mtime

ReusesCache(w) ==
    /\ pc'[w] = "route"
    /\ loc'[w].items = cache.items
    /\ ~loc'[w].didRead
    /\ UNCHANGED <<cache, heap>>

RecordFields == {"id", "name", "price", "pics", "description"}

OnlyRecordFields(items) == \A i \in 1..Len(items) : DOMAIN items[i] = RecordFields

\* C2: the records of a cached list are never changed after the load:
\* whatever requests were served, every record in the cache, and every
\* record GET /api/laptops returns in `items`, has exactly the fields id,
\* name, price, pics and description (no resolved picture URLs).
C2_RecordsUntouched ==
    /\ OnlyRecordFields(heap[cache.items])
    /\ \A w \in Workers :
          pc[w] = "done" /\ resp[w].route = "api" => OnlyRecordFields(resp[w].items)

\* the record x as load_laptops built it
Bare(x) == [f \in RecordFields |-> x[f]]

BareAll(items) == [i \in 1..Len(items) |-> Bare(items[i])]

\* no load_laptops call is between its first line and its return
NoLoadInFlight == \A w \in Workers : pc[w] \in {"idle", "route", "done"}

\* C10: concurrent reloads converge: once every load_laptops call in flight
\* has returned, a cache that holds the file's current modification time
\* holds the list built from the file's current content (so a later load
\* returns that list).
C10_Convergent ==
    (/\ NoLoadInFlight
     /\ file.exists /\ cache.mtime = JInt(file.mtime)
     /\ heap[cache.items] # <<>>)
    => BareAll(heap[cache.items]) = BuildCatalog(file.data).v

(***************************************************************************)
(* SpecLoad: one worker loads, twice or more, a file that holds any array  *)
(* of at most MaxRows entries drawn from LoadEntries, after no or MaxPad   *)
(* entries that are no records (so that positions reach two digits).       *)
(***************************************************************************)
MaxRows == 3

MaxPad == 9

PlainRow(name, price) == Row(name, price, Absent, Absent, Absent)

\* names that are equal, that differ in case and punctuation only, that end
\* in "-<number>", or are missing; prices that are equal under different
\* spellings, negative, or missing
LoadEntries ==
    {PlainRow(JStr("HP"), JInt(7)),
     PlainRow(JStr("hp!"), JStr("Rs 7")),
     PlainRow(JStr("HP-1"), JInt(-5)),
     PlainRow(JStr("HP 11"), JFloat(75)),
     PlainRow(Absent, Absent),
     NonRecord}

RECURSIVE Arrays(_, _)
Arrays(entries, n) ==
    IF n = 0 THEN {<<>>}
    ELSE LET shorter == Arrays(entries, n - 1)
         IN  shorter \cup {Append(a, e) : a \in {b \in shorter : Len(b) = n - 1}, e \in entries}

Pad(n) == [i \in 1..n |-> NonRecord]

LoadDocs == {Doc(Pad(k) \o rows) : k \in {0, MaxPad}, rows \in Arrays(LoadEntries, MaxRows)}

InitLoad == \E data \in LoadDocs : InitService(data)

NextLoad ==
    \/ Receive("w1")
    \/ Load("w1")
    \/ ApiLaptops("w1", None, None, None)
    \/ Send("w1")

SpecLoad == InitLoad /\ [][NextLoad]_vars

\* C4: every record of every list load_laptops returns has price >= 0,
\* whatever the source's spelling of the price.
C4_NonNegativePrices ==
    \A w \in Workers :
        Returned(w) =>
            \A i \in 1..Len(heap[loc[w].items]) : heap[loc[w].items][i].price >= 0

\* C5: the ids of the records of one loaded list are pairwise distinct.
C5_UniqueIds ==
    \A w \in Workers :
        Returned(w) =>
            LET items == heap[loc[w].items]
            IN  \A i, j \in 1..Len(items) : items[i].id = items[j].id => i = j

\* a list was returned that holds records of one name, of names that differ
\* in case and punctuation only, and of a name that ends in "-<number>",
\* from an array with skipped entries
C5_Witness ==
    \E w \in Workers :
        /\ Returned(w)
        /\ LET items == heap[loc[w].items]
               names == {items[i].name : i \in 1..Len(items)}
           IN  /\ Len(items) = 3 /\ Len(file.data.v) > 10
               /\ names = {"HP", "hp!", "HP-1"} \/ names = {"HP"}

\* the 1-based position in the source array that an id ends with
RECURSIVE TrailingDigits(_)
TrailingDigits(s) ==
    IF s = "" \/ ~CharIn(Ch(s, Len(s)), DigitChars) THEN ""
    ELSE TrailingDigits(SubSeq(s, 1, Len(s) - 1)) \o Ch(s, Len(s))

SourcePosition(item) == DigitsToNat(TrailingDigits(item.id))

\* C6: every list load_laptops returns, new or cached, is in ascending
\* order of price, and records of equal price are in the order of the
\* source array.
C6_SortedStable ==
    \A w \in Workers :
        Returned(w) =>
            LET items == heap[loc[w].items]
            IN  \A i, j \in 1..Len(items) :
                    i < j =>
                        /\ items[i].price <= items[j].price
                        /\ items[i].price = items[j].price =>
                               SourcePosition(items[i]) < SourcePosition(items[j])

\* the cached list was returned again, and holds two records of one price
\* after a record of a lower one
C6_Witness ==
    \E w \in Workers :
        /\ Returned(w) /\ ~loc[w].didRead
        /\ LET items == heap[loc[w].items]
           IN  /\ Len(items) = 3
               /\ items[1].price < items[2].price
               /\ items[2].price = items[3].price

(***************************************************************************)
(* SpecPrice: the same, of a file that holds one record whose price is a   *)
(* number, null, missing, or any text of at most MaxText characters of     *)
(* PriceChars.                                                             *)
(***************************************************************************)
MaxText == 4

PriceChars == "12.,R "

RECURSIVE Texts(_, _)
Texts(chars, n) ==
    IF n = 0 THEN {""}
    ELSE LET shorter == Texts(chars, n - 1)
         IN  shorter \cup {t \o Ch(chars, i) : t \in {u \in shorter : Len(u) = n - 1},
                                               i \in 1..Len(chars)}

PriceInputs ==
    {Absent, None, JInt(45000), JInt(-5), JFloat(450009), JFloat(-15), JInf}
        \cup {JStr(t) : t \in Texts(PriceChars, MaxText)}

InitPrice == \E price \in PriceInputs : InitService(Doc(<<PlainRow(JStr("HP"), price)>>))

SpecPrice == InitPrice /\ [][NextLoad]_vars

\* C3: parse_price is total: it returns an integer and raises no error for
\* every value of the price field, so no load of a file that holds an array
\* fails.
C3_PriceTotal ==
    \A w \in Workers :
        pc[w] = "done" =>
            /\ \A i \in 1..Len(file.data.v) :
                  parse_price(Get(file.data.v[i].price, JInt(0))).ok
            /\ resp[w].status = 200

(***************************************************************************)
(* SpecSerial: one worker serves the three routes, with every combination  *)
(* of the parameters below, from a file that may be removed.               *)
(***************************************************************************)
\* an array whose record has a price text that float() rejects
CatalogBadPrice == Doc(<<PlainRow(JStr("MSI"), JStr("1.2.3"))>>)

SerialCatalogs == {CatalogA, CatalogB, CatalogEmpty, NotAList, CatalogBadPrice}

\* GET /api/laptops: min_price and max_price, and q
ApiBounds == {None, JInt(0), JInt(30000), JInt(60000)}

Queries == {None, JStr(""), JStr(" hP "), JStr("l x"), JStr("hpx")}

\* GET /: min and min_price, max and max_price, and q
HomeMins == {None, JInt(0), JInt(50), JInt(999), JInt(1000)}

HomeMaxes == {None, JInt(0), JInt(50)}

HomeQueries == {None, JStr(" hP ")}

InitSerial == \E data \in SerialCatalogs : InitService(data)

NextSerial ==
    \/ RemoveFile
    \/ Receive("w1")
    \/ Load("w1")
    \/ \E min, min_price \in HomeMins, max, max_price \in HomeMaxes, q \in HomeQueries :
          Home("w1", min_price, max_price, min, max, q)
    \/ \E item_id \in ItemIds : ProductPage("w1", item_id)
    \/ \E min_price, max_price \in ApiBounds, q \in Queries :
          ApiLaptops("w1", min_price, max_price, q)
    \/ Send("w1")

SpecSerial == InitSerial /\ [][NextSerial]_vars

\* worker w's route returns in this step, with a response of route r
Responds(w, r) == pc[w] = "route" /\ pc'[w] = "done" /\ resp'[w].route = r

\* the record x passes the bounds and the query that are supplied
Wanted(x, lo, hi, q) ==
    /\ lo # None => x.price >= lo.v
    /\ hi # None => x.price <= hi.v
    /\ q # None => Contains(Lower(x.name), Lower(Strip(q.v)))

WantedPositions(items, lo, hi, q) == {i \in 1..Len(items) : Wanted(items[i], lo, hi, q)}

\* the items at the positions S, in their order in items
SubsequenceAt(items, S) ==
    [k \in 1..Cardinality(S) |->
        items[CHOOSE i \in S : Cardinality({j \in S : j < i}) = k - 1]]

\* C7: filter_laptops returns exactly the records of items that pass every
\* supplied bound and the supplied query (trimmed, whatever the case), in
\* their order in items, all of them when nothing is supplied, and it
\* leaves items as it was.
C7_FilterExact ==
    [][\A w \in Workers :
          Responds(w, "api") =>
              LET items == heap[loc[w].items]
                  r == resp'[w]
              IN  /\ r.items = SubsequenceAt(items,
                                   WantedPositions(items, r.min_price, r.max_price, r.q))
                  /\ r.count = Len(r.items)
                  /\ heap' = heap]_vars

\* a response of GET /api/laptops that kept two of three records, by a
\* bound that a price equals and a query of another case with blanks around
C7_Witness ==
    \E w \in Workers :
        /\ pc[w] = "done" /\ resp[w].route = "api"
        /\ resp[w].min_price = JInt(30000) /\ resp[w].max_price = JInt(30000)
        /\ resp[w].q = JStr(" hP ")
        /\ Len(resp[w].items) = 2 /\ Len(heap[loc[w].items]) = 3

\* C8: GET /product/{item_id} answers 404 when no record of the loaded list
\* has that id, and otherwise presents exactly 2 picture URLs: the
\* placeholder twice for a record with no picture, the resolved picture
\* twice for a record with one, the first two resolved pictures for a
\* record with more.
C8_ProductPage ==
    \A w \in Workers :
        pc[w] = "done" /\ resp[w].route = "product" =>
            LET items == heap[loc[w].items]
                r == resp[w]
                found == {i \in 1..Len(items) : items[i].id = r.item_id}
            IN  IF found = {} THEN r.status = 404
                ELSE /\ r.status = 200
                     /\ Len(r.pics) = 2
                     /\ \A i \in found :
                           LET pics == items[i].pics
                           IN  /\ Len(pics) = 0 => r.pics = <<NoImageLarge, NoImageLarge>>
                               /\ Len(pics) = 1 =>
                                      r.pics = <<resolve_pic_url(pics[1]),
                                                 resolve_pic_url(pics[1])>>
                               /\ Len(pics) >= 2 =>
                                      r.pics = <<resolve_pic_url(pics[1]),
                                                 resolve_pic_url(pics[2])>>

\* the page of a record that has one picture
C8_Witness ==
    \E w \in Workers :
        /\ pc[w] = "done" /\ resp[w].route = "product" /\ resp[w].status = 200
        /\ Len(resp[w].item.pics) = 1
        /\ resp[w].pics = <<"/static/hp.jpg", "/static/hp.jpg">>

\* normalize_range_value as C9 states it
Normalized(v) ==
    IF v = None THEN None
    ELSE IF v.v > 0 /\ v.v < 1000 THEN JInt(v.v * 1000)
    ELSE v

IdsOf(items) == [i \in 1..Len(items) |-> items[i].id]

\* C9: GET / filters by normalize_range_value of min (max) when it is
\* supplied, 0 included, and of min_price (max_price) otherwise, where
\* normalize_range_value maps v with 0 < v < 1000 to v * 1000 and leaves 0,
\* the values from 1000 on and an absent value as they are.
C9_EffectiveBounds ==
    [][\A w \in Workers :
          Responds(w, "home") =>
              LET items == heap[loc[w].items]
                  r == resp'[w]
                  lo == Normalized(IF r.min # None THEN r.min ELSE r.min_price)
                  hi == Normalized(IF r.max # None THEN r.max ELSE r.max_price)
              IN  /\ r.effective_min = lo
                  /\ r.effective_max = hi
                  /\ IdsOf(r.items) =
                         IdsOf(SubsequenceAt(items, WantedPositions(items, lo, hi, r.q)))]_vars

\* a page asked for with min=0 and min_price=50 that shows all three records
C9_Witness ==
    \E w \in Workers :
        /\ pc[w] = "done" /\ resp[w].route = "home"
        /\ resp[w].min = JInt(0) /\ resp[w].min_price = JInt(50)
        /\ resp[w].effective_min = JInt(0)
        /\ Len(resp[w].items) = 3

====
